---- MODULE Spec2Model ----
(***************************************************************************)
(* Model of the FT232H software I2C bus master, ftdi/i2c.go.               *)
(*                                                                         *)
(* A transaction (Tx) assembles one MPSSE command batch in memory, then    *)
(* flushes, writes the batch, reads the response bytes back and decodes    *)
(* them (transactionEnd).  All bytes are modelled as the numbers 0..255    *)
(* and the batch as the byte sequence the code builds; the batch is read   *)
(* back by decoding it opcode by opcode, the way the adapter does.         *)
(* Frequencies are counted in Hz (physic.Hertz is the unit).               *)
(***************************************************************************)
EXTENDS Integers, Sequences, FiniteSets

(***************************************************************************)
(* Bounds of the model.                                                    *)
(***************************************************************************)
\* longest write payload of a transaction
MaxW == 2
\* longest read buffer of a transaction
MaxR == 2
\* number of concurrent callers in SpecConc
NumProcs == 2

(***************************************************************************)
(* Program constants.                                                      *)
(***************************************************************************)
i2cSCL == 1
i2cSDAOut == 2
i2cSDAIn == 4
\* MPSSE opcodes, with the values the comments of i2c.go give
gpioSetD == 128
\* dataOut | dataOutFall
dataOutOnFall == 17
\* dataIn
dataIn == 32
\* dataIn | dataBit
dataInBit == 34
\* dataOut | dataOutFall | dataBit
dataOutBitOnFall == 19
flush == 135
clock2Phase == 141
clock30MHz == 138
dataTristate == 158
\* frequency limits of SetSpeed, in Hz
MaxSpeedHz == 10000000
MinSpeedHz == 100

(***************************************************************************)
(* Inputs.                                                                 *)
(***************************************************************************)
Procs == 1..NumProcs
\* the caller of the sequential specification
Callers == {1}
\* addresses handed to Tx: a 7-bit address and one beyond 7 bits
Addrs == {80, 1025}
\* the write payload of length n: bytes that are also opcodes, all distinct
WPattern == <<128, 17, 135, 34, 32, 19>>
WOfLen(n) == [i \in 1..n |-> WPattern[((i - 1) % 6) + 1]]
\* the caller's read buffer of length n before the call
ROfLen(n) == [i \in 1..n |-> 192 + i]
\* what the slave answers to a 1-bit acknowledgment read: ACK (bit 0 clear,
\* upper bits left over in the shift register) or NAK (bit 0 set)
AckByte(nak) == IF nak THEN 1 ELSE 254
\* what the slave answers to an 8-bit read
DataByte(b) == IF b THEN 165 ELSE 90
TransportErrs == {"EIO", "EPIPE"}
Outcomes == {"nil"} \cup TransportErrs
Freqs == {99, 100, 400000, 10000000, 10000001}
\* dbus.direction before the bus is set up
InitDirections == {0, 244}

(***************************************************************************)
(* Byte arithmetic.                                                        *)
(***************************************************************************)
\* x | 0x01
Or01(x) == IF x % 2 = 0 THEN x + 1 ELSE x
\* x & 0xFE on the low byte
AndFE(x) == (x % 256) - (x % 2)
\* x & 0x01
And01(x) == x % 2
\* x &^ (i2cSCL | i2cSDAOut | i2cSDAIn) for a byte x
ClearLow3(x) == x - (x % 8)

\* address_byte without the shift: the address in the low seven bits
address_byteNoShift(uiAddr, bRead) ==
    IF bRead
    THEN Or01(uiAddr % 65536) % 256
    ELSE AndFE(uiAddr % 65536)

\* i2cBus.address_byte: uint16 shift, then truncation to a byte
address_byte(uiAddr, bRead) ==
    IF bRead
    THEN Or01((uiAddr * 2) % 65536) % 256
    ELSE AndFE((uiAddr * 2) % 65536)

(***************************************************************************)
(* Signal sequencer: the byte sequences of the primitives.                 *)
(***************************************************************************)
Rep4(v, dir) ==
    <<gpioSetD, v, dir, gpioSetD, v, dir, gpioSetD, v, dir, gpioSetD, v, dir>>

\* the direction mask setI2CLinesIdle stores
IdleDirection(dir) == ClearLow3(dir) + i2cSCL + i2cSDAOut

\* setI2CLinesIdle queueing nothing
setI2CLinesIdleNone(dir) == <<>>

\* the command setI2CLinesIdle returns, given the direction before the call
setI2CLinesIdle(dir) == Rep4(i2cSCL + i2cSDAOut, IdleDirection(dir))

setI2CStart(dir) == Rep4(i2cSCL, dir) \o Rep4(0, dir)

\* a stop that raises clock and data in the same command
setI2CStopBothAtOnce(dir) == Rep4(0, dir) \o Rep4(i2cSCL + i2cSDAOut, dir)

setI2CStop(dir) == Rep4(0, dir) \o Rep4(i2cSCL, dir) \o Rep4(i2cSCL + i2cSDAOut, dir)

\* setI2CWriteBytes without the acknowledgment read
RECURSIVE setI2CWriteBytesNoAck(_, _)
setI2CWriteBytesNoAck(w, dir) ==
    IF w = <<>> THEN <<>>
    ELSE <<dataOutOnFall, 0, 0, Head(w)>> \o Rep4(i2cSDAOut, dir)
         \o setI2CWriteBytesNoAck(Tail(w), dir)

RECURSIVE setI2CWriteBytes(_, _)
setI2CWriteBytes(w, dir) ==
    IF w = <<>> THEN <<>>
    ELSE <<dataOutOnFall, 0, 0, Head(w)>> \o Rep4(i2cSDAOut, dir)
         \o <<dataInBit, 0>> \o setI2CWriteBytes(Tail(w), dir)

\* the read loop acknowledging every byte, the last one too
RECURSIVE ReadBytesFromAckAll(_, _, _)
ReadBytesFromAckAll(iCnt, setCnt, dir) ==
    IF iCnt >= setCnt THEN <<>>
    ELSE <<dataIn, 0, 0, dataOutBitOnFall, 0>>
         \o <<0>>
         \o <<gpioSetD, i2cSDAOut, dir>>
         \o ReadBytesFromAckAll(iCnt + 1, setCnt, dir)

RECURSIVE ReadBytesFrom(_, _, _)
ReadBytesFrom(iCnt, setCnt, dir) ==
    IF iCnt >= setCnt THEN <<>>
    ELSE <<dataIn, 0, 0, dataOutBitOnFall, 0>>
         \o <<IF iCnt # setCnt - 1 THEN 0 ELSE 255>>
         \o <<gpioSetD, i2cSDAOut, dir>>
         \o ReadBytesFrom(iCnt + 1, setCnt, dir)

\* setI2CReadBytes with a loop that runs once too often
setI2CReadBytesOneMore(setCnt, dir) == ReadBytesFrom(0, setCnt + 1, dir)

setI2CReadBytes(setCnt, dir) == ReadBytesFrom(0, setCnt, dir)

(***************************************************************************)
(* Transaction builder: the body of Tx up to the call of transactionEnd.   *)
(* dir is dbus.direction when Tx starts; setI2CLinesIdle rewrites it in    *)
(* the combined branch.                                                    *)
(***************************************************************************)
\* Tx without iReadCnt += len(byRead)
TxBuildNoReadAddrCount(dir, addr, w, r) ==
    LET byWrite == <<address_byte(addr, FALSE)>> \o w
        combined == (Len(r) # 0) /\ (Len(w) # 0)
        dir2 == IF combined THEN IdleDirection(dir) ELSE dir
        head == setI2CStart(dir) \o setI2CWriteBytes(byWrite, dir)
        mid == IF combined
               THEN setI2CStop(dir) \o setI2CLinesIdle(dir) \o setI2CStart(dir2)
                    \o setI2CWriteBytes(<<address_byte(addr, TRUE)>>, dir2)
                    \o setI2CReadBytes(Len(r), dir2)
               ELSE <<>>
    IN  [cmdFull |-> head \o mid \o setI2CStop(dir2),
         iReadCnt |-> Len(byWrite) + (IF combined THEN Len(r) ELSE 0),
         direction |-> dir2]

TxBuild(dir, addr, w, r) ==
    LET byWrite == <<address_byte(addr, FALSE)>> \o w
        combined == (Len(r) # 0) /\ (Len(w) # 0)
        dir2 == IF combined THEN IdleDirection(dir) ELSE dir
        head == setI2CStart(dir) \o setI2CWriteBytes(byWrite, dir)
        mid == IF combined
               THEN setI2CStop(dir) \o setI2CLinesIdle(dir) \o setI2CStart(dir2)
                    \o setI2CWriteBytes(<<address_byte(addr, TRUE)>>, dir2)
                    \o setI2CReadBytes(Len(r), dir2)
               ELSE <<>>
    IN  [cmdFull |-> head \o mid \o setI2CStop(dir2),
         iReadCnt |-> Len(byWrite) + (IF combined THEN 1 + Len(r) ELSE 0),
         direction |-> dir2]

(***************************************************************************)
(* Transaction executor: the decoding half of transactionEnd (the two      *)
(* loops after ReadAll).  Sequences are 1-based, the code's indices        *)
(* 0-based.  An index outside readBuff is Go's index-out-of-range panic;   *)
(* the bytes copied before it stay in r.                                   *)
(***************************************************************************)
\* the first iCnt of the copy loop whose index is outside readBuff, or Len(r)
FirstBadCopy(readCnt, r) ==
    LET bad == {i \in 0..(Len(r) - 1) :
                   (readCnt - Len(r)) + i < 0 \/ (readCnt - Len(r)) + i >= readCnt}
    IN  IF bad = {} THEN Len(r)
        ELSE CHOOSE i \in bad : \A j \in bad : i <= j

CopyUpTo(readBuff, readCnt, r, n) ==
    [i \in 1..Len(r) |->
        IF i <= n THEN readBuff[(readCnt - Len(r)) + i] ELSE r[i]]

\* transactionEnd with the copy loop ahead of the acknowledgment loop
DecodeCopyFirst(readBuff, readCnt, r) ==
    LET n == FirstBadCopy(readCnt, r)
        nak == \E i \in 0..(readCnt - Len(r) - 1) : And01(readBuff[i + 1]) # 0
    IN  IF n < Len(r)
        THEN [err |-> "panic", r |-> CopyUpTo(readBuff, readCnt, r, n)]
        ELSE [err |-> IF nak THEN "NAK" ELSE "nil",
              r |-> CopyUpTo(readBuff, readCnt, r, n)]

Decode(readBuff, readCnt, r) ==
    IF \E i \in 0..(readCnt - Len(r) - 1) : And01(readBuff[i + 1]) # 0
    THEN [err |-> "NAK", r |-> r]
    ELSE LET n == FirstBadCopy(readCnt, r)
         IN  [err |-> IF n < Len(r) THEN "panic" ELSE "nil",
              r |-> CopyUpTo(readBuff, readCnt, r, n)]

(***************************************************************************)
(* The adapter's view of a batch: the MPSSE command stream decoded opcode  *)
(* by opcode.  An operation is a record; kind is "pins" (set value and     *)
(* direction), "out8" (shift bytes out), "in1" (shift bits in, one         *)
(* response byte), "in8" (shift bytes in, one response byte each),         *)
(* "out1" (shift bits out), "flush" or "bad".                              *)
(***************************************************************************)
\* the number of bytes of the command that begins at b[i]
OpLen(b, i) ==
    IF b[i] = gpioSetD /\ i + 2 <= Len(b) THEN 3
    ELSE IF b[i] = dataOutOnFall /\ i + 2 <= Len(b)
              /\ i + 3 + b[i + 1] + 256 * b[i + 2] <= Len(b)
    THEN 4 + b[i + 1] + 256 * b[i + 2]
    ELSE IF b[i] = dataInBit /\ i + 1 <= Len(b) THEN 2
    ELSE IF b[i] = dataIn /\ i + 2 <= Len(b) THEN 3
    ELSE IF b[i] = dataOutBitOnFall /\ i + 2 <= Len(b) THEN 3
    ELSE 1

\* the command that begins at b[i]; a is the value of a set-pins command and
\* the number of bytes or bits of a shift, d the direction of a set-pins
\* command and the data of a shift-out
OpAt(b, i) ==
    IF b[i] = gpioSetD /\ i + 2 <= Len(b)
    THEN [kind |-> "pins", a |-> b[i + 1], d |-> <<b[i + 2]>>]
    ELSE IF b[i] = dataOutOnFall /\ i + 2 <= Len(b)
              /\ i + 3 + b[i + 1] + 256 * b[i + 2] <= Len(b)
    THEN [kind |-> "out8", a |-> b[i + 1] + 256 * b[i + 2] + 1,
          d |-> SubSeq(b, i + 3, i + 3 + b[i + 1] + 256 * b[i + 2])]
    ELSE IF b[i] = dataInBit /\ i + 1 <= Len(b)
    THEN [kind |-> "in1", a |-> b[i + 1] + 1, d |-> <<>>]
    ELSE IF b[i] = dataIn /\ i + 2 <= Len(b)
    THEN [kind |-> "in8", a |-> b[i + 1] + 256 * b[i + 2] + 1, d |-> <<>>]
    ELSE IF b[i] = dataOutBitOnFall /\ i + 2 <= Len(b)
    THEN [kind |-> "out1", a |-> b[i + 1] + 1, d |-> <<b[i + 2]>>]
    ELSE IF b[i] = flush
    THEN [kind |-> "flush", a |-> 0, d |-> <<>>]
    ELSE [kind |-> "bad", a |-> b[i], d |-> <<>>]

\* the command at b[i] as a sequence, empty past the end of b
OpsAt(b, i) == IF i > Len(b) THEN <<>> ELSE <<OpAt(b, i)>>
\* where the command after the one at b[i] begins
After(b, i) == IF i > Len(b) THEN i ELSE i + OpLen(b, i)

\* the commands of b from index i on, eight at a time
RECURSIVE ParseFrom(_, _)
ParseFrom(b, i) ==
    IF i > Len(b) THEN <<>>
    ELSE LET i2 == After(b, i)
             i3 == After(b, i2)
             i4 == After(b, i3)
             i5 == After(b, i4)
             i6 == After(b, i5)
             i7 == After(b, i6)
             i8 == After(b, i7)
         IN  OpsAt(b, i) \o OpsAt(b, i2) \o OpsAt(b, i3) \o OpsAt(b, i4)
             \o OpsAt(b, i5) \o OpsAt(b, i6) \o OpsAt(b, i7) \o OpsAt(b, i8)
             \o ParseFrom(b, After(b, i8))

Parse(b) == ParseFrom(b, 1)

OfKind(ops, k) == SelectSeq(ops, LAMBDA o : o.kind = k)

\* the response-producing operations of a batch, in the order queued
IsShiftIn(o) == o.kind = "in1" \/ o.kind = "in8"
ShiftIns(ops) == SelectSeq(ops, IsShiftIn)

RECURSIVE SumA(_)
SumA(ops) == IF ops = <<>> THEN 0 ELSE Head(ops).a + SumA(Tail(ops))

\* the number of response bytes the adapter produces for a batch: one per
\* 1-bit shift-in command, one per byte of an 8-bit shift-in command
ResponseLen(ops) == Len(OfKind(ops, "in1")) + SumA(OfKind(ops, "in8"))

\* the kinds of the response bytes of a sequence of shift-ins
RECURSIVE KindsOf(_)
KindsOf(ins) ==
    IF ins = <<>> THEN <<>>
    ELSE (IF Head(ins).kind = "in1" THEN <<"ack">>
          ELSE [i \in 1..Head(ins).a |-> "data"]) \o KindsOf(Tail(ins))

\* the kinds of the response bytes, in the order the adapter emits them
ResponseKinds(ops) == KindsOf(ShiftIns(ops))

\* the number of acknowledgment bytes among the first i response bytes
AckIndex(kinds, i) == Cardinality({j \in 1..i : kinds[j] = "ack"})

\* the response the adapter emits when the slave answers naks[k] to the
\* k-th acknowledgment read and alternating data bytes, beginning with
\* DataByte(first), to the 8-bit reads
Response(kinds, naks, first) ==
    [i \in 1..Len(kinds) |->
        IF kinds[i] = "ack" THEN AckByte(naks[AckIndex(kinds, i)])
        ELSE DataByte((i % 2 = 1) = first)]

(***************************************************************************)
(* State.                                                                  *)
(***************************************************************************)
VARIABLES
    mu,         \* FT232H.mu: 0 when free, else the caller that holds it
    opened,     \* the bus handle exists (setupI2C returned nil)
    usingI2C,   \* FT232H.usingI2C
    pullUp,     \* i2cBus.pullUp
    direction,  \* FT232H.dbus.direction
    hwClock,    \* the argument of the last successful MPSSEClock call, 0 if none
    value,      \* FT232H.dbus.value: the levels the GPIO side last drove on D0..D7
    lines,      \* the value byte of the last set-pins command the adapter ran
    pc,         \* where each caller is in its current operation
    frame,      \* the arguments and locals of each caller's current operation
    ret         \* the last return: who, from what, with what; cleared by the next call

vars == <<mu, opened, usingI2C, pullUp, direction, hwClock, value, lines, pc, frame, ret>>

NoFrame ==
    [addr |-> 0, w |-> <<>>, r |-> <<>>, r0 |-> <<>>, cmdFull |-> <<>>,
     readCnt |-> 0, sent |-> <<>>, wire |-> <<>>, readBuff |-> <<>>,
     err |-> "nil", calls |-> <<>>, failed |-> <<>>, freq |-> 0,
     prev |-> "none"]

NoRet == [who |-> 0, op |-> "none", err |-> "nil"]

\* dbus.value before the bus is set up: D4 is driven high when it is an output
DrivenHigh(dir) == IF (dir \div 16) % 2 = 1 THEN 16 ELSE 0

\* the level the adapter's pins are left at by a command stream it ran: the
\* value of its last set-pins command, cur if it has none
LastLevel(cmd, cur) ==
    LET pins == OfKind(Parse(cmd), "pins")
    IN  IF pins = <<>> THEN cur ELSE pins[Len(pins)].a

Init ==
    /\ mu = 0
    /\ opened = FALSE
    /\ usingI2C = FALSE
    /\ pullUp = FALSE
    /\ direction \in InitDirections
    /\ hwClock = 0
    /\ value = DrivenHigh(direction)
    /\ lines = value
    /\ pc = [p \in Procs |-> "idle"]
    /\ frame = [p \in Procs |-> NoFrame]
    /\ ret = NoRet

(***************************************************************************)
(* setupI2C, run once by the constructor before the handle is handed out.  *)
(* o1 and o2 are the outcomes of its two transport writes.                 *)
(***************************************************************************)
Setup(pu, o1, o2) ==
    /\ ~opened
    /\ mu = 0
    /\ IF pu
       THEN UNCHANGED <<opened, usingI2C, pullUp, direction, lines>>
       ELSE IF o1 # "nil"
       THEN UNCHANGED <<opened, usingI2C, pullUp, direction, lines>>
       ELSE /\ usingI2C' = TRUE
            /\ pullUp' = pu
            /\ direction' = IdleDirection(direction)
            /\ opened' = (o2 = "nil")
            /\ lines' = IF o2 = "nil"
                        THEN LastLevel(setI2CLinesIdle(direction) \o <<flush>>, lines)
                        ELSE lines
    /\ UNCHANGED <<mu, hwClock, value, pc, frame, ret>>

(***************************************************************************)
(* Tx.                                                                     *)
(***************************************************************************)
\* Tx is called; its first statement waits for the lock
TxCall(p) ==
    /\ opened
    /\ pc[p] = "idle"
    /\ pc' = [pc EXCEPT ![p] = "tx_lock"]
    /\ frame' = [frame EXCEPT ![p] = NoFrame]
    /\ ret' = NoRet
    /\ UNCHANGED <<mu, opened, usingI2C, pullUp, direction, hwClock, value, lines>>

\* d.f.mu.Lock(), then the batch is assembled in memory
TxLock(p, addr, w, r) ==
    /\ pc[p] = "tx_lock"
    /\ mu = 0
    /\ mu' = p
    /\ LET b == TxBuild(direction, addr, w, r)
       IN  /\ frame' = [frame EXCEPT ![p] =
                  [NoFrame EXCEPT !.addr = addr, !.w = w, !.r = r, !.r0 = r,
                                  !.cmdFull = b.cmdFull, !.readCnt = b.iReadCnt]]
           /\ direction' = b.direction
    /\ pc' = [pc EXCEPT ![p] = "tx_flush"]
    /\ UNCHANGED <<opened, usingI2C, pullUp, hwClock, value, lines, ret>>

\* transactionEnd going on to the write after a failed Flush
TxFlushIgnoreErr(p, o) ==
    /\ pc[p] = "tx_flush"
    /\ frame' = [frame EXCEPT ![p].calls = Append(@, "Flush"),
                              ![p].failed = IF o = "nil" THEN @ ELSE <<"Flush", o>>]
    /\ pc' = [pc EXCEPT ![p] = "tx_write"]
    /\ UNCHANGED <<mu, opened, usingI2C, pullUp, direction, hwClock, value, lines, ret>>

\* transactionEnd: d.f.h.Flush()
TxFlush(p, o) ==
    /\ pc[p] = "tx_flush"
    /\ frame' = [frame EXCEPT ![p].calls = Append(@, "Flush"),
                              ![p].failed = IF o = "nil" THEN @ ELSE <<"Flush", o>>,
                              ![p].err = o]
    /\ pc' = [pc EXCEPT ![p] = IF o = "nil" THEN "tx_write" ELSE "tx_ret"]
    /\ UNCHANGED <<mu, opened, usingI2C, pullUp, direction, hwClock, value, lines, ret>>

\* transactionEnd writing the batch and flushing with a call of its own
TxWriteThenFlush(p, o) ==
    /\ pc[p] = "tx_write"
    /\ frame' = [frame EXCEPT ![p].calls = @ \o <<"Write", "Flush">>,
                              ![p].sent = frame[p].cmdFull,
                              ![p].failed = IF o = "nil" THEN @ ELSE <<"Write", o>>,
                              ![p].err = o]
    /\ lines' = IF o = "nil" THEN LastLevel(frame[p].cmdFull, lines) ELSE lines
    /\ pc' = [pc EXCEPT ![p] = IF o = "nil" THEN "tx_read" ELSE "tx_ret"]
    /\ UNCHANGED <<mu, opened, usingI2C, pullUp, direction, hwClock, value, ret>>

\* transactionEnd: d.f.h.Write(cmdfull) of the batch and the trailing flush
TxWrite(p, o) ==
    /\ pc[p] = "tx_write"
    /\ frame' = [frame EXCEPT ![p].calls = Append(@, "Write"),
                              ![p].sent = frame[p].cmdFull \o <<flush>>,
                              ![p].failed = IF o = "nil" THEN @ ELSE <<"Write", o>>,
                              ![p].err = o]
    /\ lines' = IF o = "nil" THEN LastLevel(frame[p].cmdFull \o <<flush>>, lines)
                ELSE lines
    /\ pc' = [pc EXCEPT ![p] = IF o = "nil" THEN "tx_read" ELSE "tx_ret"]
    /\ UNCHANGED <<mu, opened, usingI2C, pullUp, direction, hwClock, value, ret>>

\* transactionEnd: d.f.h.ReadAll fails
TxReadFail(p, o) ==
    /\ pc[p] = "tx_read"
    /\ o # "nil"
    /\ frame' = [frame EXCEPT ![p].calls = Append(@, "ReadAll"),
                              ![p].failed = <<"ReadAll", o>>,
                              ![p].err = o]
    /\ pc' = [pc EXCEPT ![p] = "tx_ret"]
    /\ UNCHANGED <<mu, opened, usingI2C, pullUp, direction, hwClock, value, lines, ret>>

\* transactionEnd: d.f.h.ReadAll returns readCnt bytes, which are decoded.
\* The adapter emits one byte per response-producing shift of the batch it
\* was sent; ReadAll blocks until readCnt bytes have arrived.
TxRead(p) ==
    /\ pc[p] = "tx_read"
    /\ LET kinds == ResponseKinds(Parse(frame[p].sent))
           n == frame[p].readCnt
       IN  /\ n <= Len(kinds)
           /\ \E naks \in [1..AckIndex(kinds, Len(kinds)) -> BOOLEAN], first \in BOOLEAN :
                 LET resp == Response(kinds, naks, first)
                     buf == SubSeq(resp, 1, n)
                     dec == Decode(buf, n, frame[p].r)
                 IN  frame' = [frame EXCEPT ![p].calls = Append(@, "ReadAll"),
                                            ![p].wire = resp,
                                            ![p].readBuff = buf,
                                            ![p].r = dec.r,
                                            ![p].err = dec.err]
    /\ pc' = [pc EXCEPT ![p] = "tx_ret"]
    /\ UNCHANGED <<mu, opened, usingI2C, pullUp, direction, hwClock, value, lines, ret>>

\* Tx unlocking on the success path only
TxReturnKeepLockOnErr(p) ==
    /\ pc[p] = "tx_ret"
    /\ mu' = IF frame[p].err = "nil" THEN 0 ELSE mu
    /\ ret' = [who |-> p, op |-> "Tx", err |-> frame[p].err]
    /\ frame' = [frame EXCEPT ![p] = NoFrame]
    /\ pc' = [pc EXCEPT ![p] = "idle"]
    /\ UNCHANGED <<opened, usingI2C, pullUp, direction, hwClock, value, lines>>

\* Tx returns (or panics); the deferred d.f.mu.Unlock() runs
TxReturn(p) ==
    /\ pc[p] = "tx_ret"
    /\ mu' = 0
    /\ ret' = [who |-> p, op |-> "Tx", err |-> frame[p].err]
    /\ frame' = [frame EXCEPT ![p] = NoFrame]
    /\ pc' = [pc EXCEPT ![p] = "idle"]
    /\ UNCHANGED <<opened, usingI2C, pullUp, direction, hwClock, value, lines>>

(***************************************************************************)
(* SetSpeed.                                                               *)
(***************************************************************************)
\* SetSpeed refusing the two limits themselves
SetSpeedCallExclusive(p, f) ==
    /\ opened
    /\ pc[p] = "idle"
    /\ IF f >= MaxSpeedHz \/ f <= MinSpeedHz
       THEN /\ ret' = [who |-> p, op |-> "SetSpeed", err |-> "OutOfRange"]
            /\ pc' = pc
       ELSE /\ ret' = NoRet
            /\ pc' = [pc EXCEPT ![p] = "ss_lock"]
    /\ frame' = [frame EXCEPT ![p] = [NoFrame EXCEPT !.freq = f]]
    /\ UNCHANGED <<mu, opened, usingI2C, pullUp, direction, hwClock, value, lines>>

\* the two range checks, made before the lock is taken; f stays the argument
\* of the caller's last SetSpeed until the caller's next call
SetSpeedCall(p, f) ==
    /\ opened
    /\ pc[p] = "idle"
    /\ IF f > MaxSpeedHz \/ f < MinSpeedHz
       THEN /\ ret' = [who |-> p, op |-> "SetSpeed", err |-> "OutOfRange"]
            /\ pc' = pc
       ELSE /\ ret' = NoRet
            /\ pc' = [pc EXCEPT ![p] = "ss_lock"]
    /\ frame' = [frame EXCEPT ![p] = [NoFrame EXCEPT !.freq = f]]
    /\ UNCHANGED <<mu, opened, usingI2C, pullUp, direction, hwClock, value, lines>>

SetSpeedLock(p) ==
    /\ pc[p] = "ss_lock"
    /\ mu = 0
    /\ mu' = p
    /\ pc' = [pc EXCEPT ![p] = "ss_clock"]
    /\ UNCHANGED <<opened, usingI2C, pullUp, direction, hwClock, value, lines, frame, ret>>

\* d.f.h.MPSSEClock(f * 2 / 3)
SetSpeedClock(p, o) ==
    /\ pc[p] = "ss_clock"
    /\ hwClock' = IF o = "nil" THEN (frame[p].freq * 2) \div 3 ELSE hwClock
    /\ frame' = [frame EXCEPT ![p].calls = Append(@, "MPSSEClock"),
                              ![p].failed = IF o = "nil" THEN @ ELSE <<"MPSSEClock", o>>,
                              ![p].err = o]
    /\ pc' = [pc EXCEPT ![p] = "ss_ret"]
    /\ UNCHANGED <<mu, opened, usingI2C, pullUp, direction, value, lines, ret>>

\* SetSpeed returns; the deferred d.f.mu.Unlock() runs
SetSpeedReturn(p) ==
    /\ pc[p] = "ss_ret"
    /\ mu' = 0
    /\ ret' = [who |-> p, op |-> "SetSpeed", err |-> frame[p].err]
    /\ frame' = [frame EXCEPT ![p] = NoFrame]
    /\ pc' = [pc EXCEPT ![p] = "idle"]
    /\ UNCHANGED <<opened, usingI2C, pullUp, direction, hwClock, value, lines>>

(***************************************************************************)
(* Close.                                                                  *)
(***************************************************************************)
CloseCall(p) ==
    /\ opened
    /\ pc[p] = "idle"
    /\ pc' = [pc EXCEPT ![p] = "cl_lock"]
    /\ frame' = [frame EXCEPT ![p] = [NoFrame EXCEPT !.prev = ret.op]]
    /\ ret' = NoRet
    /\ UNCHANGED <<mu, opened, usingI2C, pullUp, direction, hwClock, value, lines>>

\* Close going on without waiting for the lock
CloseLockNoWait(p) ==
    /\ pc[p] = "cl_lock"
    /\ mu' = p
    /\ pc' = [pc EXCEPT ![p] = "cl_stop"]
    /\ UNCHANGED <<opened, usingI2C, pullUp, direction, hwClock, value, lines, frame, ret>>

CloseLock(p) ==
    /\ pc[p] = "cl_lock"
    /\ mu = 0
    /\ mu' = p
    /\ pc' = [pc EXCEPT ![p] = "cl_stop"]
    /\ UNCHANGED <<opened, usingI2C, pullUp, direction, hwClock, value, lines, frame, ret>>

\* the command stopI2C writes
stopI2CCmd(pu) ==
    <<clock2Phase, clock30MHz, 0, 0>>
    \o (IF ~pu THEN <<dataTristate, 0, 0>> ELSE <<>>)

\* stopI2C refusing an adapter that is not in I2C mode
stopI2COnlyWhenUsing(p, o) ==
    /\ pc[p] = "cl_stop"
    /\ usingI2C' = FALSE
    /\ frame' = [frame EXCEPT ![p].calls = IF usingI2C THEN Append(@, "Write") ELSE @,
                              ![p].sent = IF usingI2C THEN stopI2CCmd(pullUp) ELSE @,
                              ![p].failed = IF o = "nil" THEN @ ELSE <<"Write", o>>,
                              ![p].err = IF usingI2C THEN o ELSE "NotOpen"]
    /\ pc' = [pc EXCEPT ![p] = "cl_ret"]
    /\ UNCHANGED <<mu, opened, pullUp, direction, hwClock, value, lines, ret>>

\* stopI2C: one transport write, then the flag is cleared whatever it returned
stopI2C(p, o) ==
    /\ pc[p] = "cl_stop"
    /\ usingI2C' = FALSE
    /\ frame' = [frame EXCEPT ![p].calls = Append(@, "Write"),
                              ![p].sent = stopI2CCmd(pullUp),
                              ![p].failed = IF o = "nil" THEN @ ELSE <<"Write", o>>,
                              ![p].err = o]
    /\ pc' = [pc EXCEPT ![p] = "cl_ret"]
    /\ UNCHANGED <<mu, opened, pullUp, direction, hwClock, value, lines, ret>>

\* Close returning without the d.f.mu.Unlock()
CloseReturnKeepLock(p) ==
    /\ pc[p] = "cl_ret"
    /\ ret' = [who |-> p, op |-> "Close", err |-> frame[p].err]
    /\ frame' = [frame EXCEPT ![p] = NoFrame]
    /\ pc' = [pc EXCEPT ![p] = "idle"]
    /\ UNCHANGED <<mu, opened, usingI2C, pullUp, direction, hwClock, value, lines>>

\* d.f.mu.Unlock() and return
CloseReturn(p) ==
    /\ pc[p] = "cl_ret"
    /\ mu' = 0
    /\ ret' = [who |-> p, op |-> "Close", err |-> frame[p].err]
    /\ frame' = [frame EXCEPT ![p] = NoFrame]
    /\ pc' = [pc EXCEPT ![p] = "idle"]
    /\ UNCHANGED <<opened, usingI2C, pullUp, direction, hwClock, value, lines>>

(***************************************************************************)
(* SCL and SDA: return d.f.D0 / d.f.D1.  Neither touches d.f.mu.           *)
(***************************************************************************)
PinCall(p, which) ==
    /\ opened
    /\ pc[p] = "idle"
    /\ pc' = [pc EXCEPT ![p] = "pin_body"]
    /\ frame' = [frame EXCEPT ![p] = [NoFrame EXCEPT !.err = which]]
    /\ ret' = NoRet
    /\ UNCHANGED <<mu, opened, usingI2C, pullUp, direction, hwClock, value, lines>>

PinReturn(p) ==
    /\ pc[p] = "pin_body"
    /\ ret' = [who |-> p, op |-> frame[p].err, err |-> "nil"]
    /\ frame' = [frame EXCEPT ![p] = NoFrame]
    /\ pc' = [pc EXCEPT ![p] = "idle"]
    /\ UNCHANGED <<mu, opened, usingI2C, pullUp, direction, hwClock, value, lines>>

(***************************************************************************)
(* Specifications.  Spec: one caller, payloads up to MaxW and buffers up   *)
(* to MaxR.  SpecConc: NumProcs callers contending for the bus, with the   *)
(* shortest payloads.                                                      *)
(***************************************************************************)
\* one step of caller p, whose transactions take addresses from addrs,
\* payloads up to maxw bytes and read buffers up to maxr bytes, and whose
\* SetSpeed calls take frequencies from freqs; a transport call returns nil
\* or an error of errs
Step(p, addrs, maxw, maxr, freqs, errs) ==
    \/ TxCall(p)
    \/ \E addr \in addrs, nw \in 0..maxw, nr \in 0..maxr :
          TxLock(p, addr, WOfLen(nw), ROfLen(nr))
    \/ \E o \in {"nil"} \cup errs : TxFlush(p, o)
    \/ \E o \in {"nil"} \cup errs : TxWrite(p, o)
    \/ \E o \in errs : TxReadFail(p, o)
    \/ TxRead(p)
    \/ TxReturn(p)
    \/ \E f \in freqs : SetSpeedCall(p, f)
    \/ SetSpeedLock(p)
    \/ \E o \in {"nil"} \cup errs : SetSpeedClock(p, o)
    \/ SetSpeedReturn(p)
    \/ CloseCall(p)
    \/ CloseLock(p)
    \/ \E o \in {"nil"} \cup errs : stopI2C(p, o)
    \/ CloseReturn(p)
    \/ \E which \in {"SCL", "SDA"} : PinCall(p, which)
    \/ PinReturn(p)

SetupStep == \E pu \in BOOLEAN, o1 \in Outcomes, o2 \in Outcomes : Setup(pu, o1, o2)

Next ==
    \/ SetupStep
    \/ \E p \in Callers : Step(p, Addrs, MaxW, MaxR, Freqs, TransportErrs)

Spec == Init /\ [][Next]_vars

NextConc ==
    \/ SetupStep
    \/ \E p \in Procs : Step(p, {80}, 1, 1, {99, 400000}, {"EIO"})

\* the bus before setup, with the upper pins inputs
InitConc == Init /\ direction = 0

SpecConc == InitConc /\ [][NextConc]_vars

\* one caller and every address a uint16 can hold a 7-bit value for
Addrs7 == 0..127

NextAddr ==
    \/ SetupStep
    \/ \E p \in Callers : Step(p, Addrs7, 1, 1, {99, 400000}, {"EIO"})

SpecAddr == InitConc /\ [][NextAddr]_vars

\* a transport call of caller p returning, or p returning from its method
Progress(p, errs) ==
    \/ \E o \in {"nil"} \cup errs : TxFlush(p, o)
    \/ \E o \in {"nil"} \cup errs : TxWrite(p, o)
    \/ \E o \in errs : TxReadFail(p, o)
    \/ TxRead(p)
    \/ TxReturn(p)
    \/ \E o \in {"nil"} \cup errs : SetSpeedClock(p, o)
    \/ SetSpeedReturn(p)
    \/ \E o \in {"nil"} \cup errs : stopI2C(p, o)
    \/ CloseReturn(p)
    \/ PinReturn(p)

\* d.f.mu.Lock() returning to caller p
Acquire(p, maxw, maxr) ==
    \/ \E nw \in 0..maxw, nr \in 0..maxr :
          TxLock(p, 80, WOfLen(nw), ROfLen(nr))
    \/ SetSpeedLock(p)
    \/ CloseLock(p)

NextFair ==
    \/ SetupStep
    \/ \E p \in Procs : Step(p, {80}, 0, 1, {400000}, {"EIO"})

\* Callers that contend for one bus.  A caller that can take a step takes
\* one, and sync.Mutex hands the lock to a goroutine that keeps waiting for
\* it (starvation mode), so a waiter that finds the lock free again and
\* again gets it.  Nobody is obliged to call or to set up.
SpecFair ==
    /\ InitConc
    /\ [][NextFair]_vars
    /\ \A p \in Procs : WF_vars(Progress(p, {"EIO"}))
    /\ \A p \in Procs : SF_vars(Acquire(p, 0, 1))

(***************************************************************************)
(* Vocabulary of the properties.                                           *)
(***************************************************************************)
\* the caller has assembled its batch and made no transport call yet
Built(p) == pc[p] = "tx_flush"
\* transactionEnd is about to return and every transport call succeeded
TxDone(p) == pc[p] = "tx_ret" /\ frame[p].failed = <<>>
\* the operations of the batch the caller assembled
BatchOps(p) == Parse(frame[p].cmdFull)

SclHigh(v) == v % 2 = 1
SdaHigh(v) == (v \div 2) % 2 = 1

\* the level set by the last set-pins command before operation i of ops;
\* the lines are idle (clock and data high) when the batch begins
RECURSIVE LevelBefore(_, _)
LevelBefore(ops, i) ==
    IF i <= 1 THEN i2cSCL + i2cSDAOut
    ELSE IF ops[i - 1].kind = "pins" THEN ops[i - 1].a
    ELSE LevelBefore(ops, i - 1)

\* the set-pins commands that make a start condition: data falls, clock high
Starts(ops) ==
    {i \in 1..Len(ops) :
        /\ ops[i].kind = "pins"
        /\ SclHigh(ops[i].a) /\ ~SdaHigh(ops[i].a)
        /\ SclHigh(LevelBefore(ops, i)) /\ SdaHigh(LevelBefore(ops, i))}

\* the set-pins commands that make a stop condition: data rises, clock high
Stops(ops) ==
    {i \in 1..Len(ops) :
        /\ ops[i].kind = "pins"
        /\ SclHigh(ops[i].a) /\ SdaHigh(ops[i].a)
        /\ SclHigh(LevelBefore(ops, i)) /\ ~SdaHigh(LevelBefore(ops, i))}

\* the shift operations of a batch: everything but set-pins and flush
IsShift(o) == o.kind \in {"out8", "in1", "in8", "out1", "bad"}
Shifts(ops) == SelectSeq(ops, IsShift)

\* the bytes of the acknowledgment-bearing operations of a batch, in order:
\* each one-byte shift-out that is followed by a one-bit shift-in
AckedBytes(ops) ==
    LET sh == Shifts(ops)
        idx == {i \in 1..(Len(sh) - 1) :
                   /\ sh[i].kind = "out8" /\ sh[i].a = 1
                   /\ sh[i + 1].kind = "in1" /\ sh[i + 1].a = 1}
        F[i \in 0..Len(sh)] ==
            IF i = 0 THEN <<>>
            ELSE IF i \in idx THEN Append(F[i - 1], sh[i].d[1]) ELSE F[i - 1]
    IN  F[Len(sh)]

\* the read-byte operations of a batch: the 8-bit shift-ins
ReadOps(ops) == OfKind(ops, "in8")

\* the first one-byte shift-out after operation i of ops, <<>> if none
FirstOutAfter(ops, i) ==
    LET later == {j \in (i + 1)..Len(ops) : ops[j].kind = "out8"}
    IN  IF later = {} THEN <<>>
        ELSE ops[CHOOSE j \in later : \A k \in later : j <= k].d

\* the response bytes at 0-based indices 0 .. readCnt - len(r) - 1
AckRegion(p) == 1..(frame[p].readCnt - Len(frame[p].r0))

NakInRegion(p) ==
    \E i \in AckRegion(p) : i <= Len(frame[p].readBuff) /\ frame[p].readBuff[i] % 2 = 1

(***************************************************************************)
(* Properties.                                                             *)
(***************************************************************************)
\* C1: when every transport call of a transaction succeeded and a response
\* byte at an index below readCnt - len(r) has bit 0 set, Tx returns the NAK
\* error and the caller's read buffer holds what it held before the call.
C1_NakFailsAndLeavesRead ==
    \A p \in Procs :
        (TxDone(p) /\ NakInRegion(p)) =>
            (frame[p].err = "NAK" /\ frame[p].r = frame[p].r0)

\* C1 witness: a combined transaction whose read-address byte is NAKed while
\* data bytes differing from the buffer came back
C1_Witness ==
    \E p \in Procs :
        /\ TxDone(p) /\ NakInRegion(p)
        /\ Len(frame[p].r0) = MaxR /\ Len(frame[p].w) >= 1
        /\ frame[p].readBuff[1] % 2 = 0
        /\ frame[p].err = "NAK"

\* C2 (as claimed): when every transport call succeeded and no response byte
\* below index readCnt - len(r) has bit 0 set, Tx returns nil and
\* r[i] = readBuff[readCnt - len(r) + i] for every i.
C2_SuccessCopiesTail ==
    \A p \in Procs :
        (TxDone(p) /\ ~NakInRegion(p)) =>
            /\ frame[p].err = "nil"
            /\ \A i \in 1..Len(frame[p].r) :
                  frame[p].r[i] =
                      frame[p].readBuff[(frame[p].readCnt - Len(frame[p].r)) + i]

\* C3 (as claimed): a pure read (w empty, len(r) >= 1) whose transport calls
\* succeed queues one acknowledgment-bearing operation and no read-byte
\* operation, returns nil without a runtime fault, and leaves r unchanged.
C3_PureReadLeavesRead ==
    \A p \in Procs :
        (TxDone(p) /\ frame[p].w = <<>> /\ Len(frame[p].r0) >= 1) =>
            /\ Len(AckedBytes(BatchOps(p))) = 1
            /\ ReadOps(BatchOps(p)) = <<>>
            /\ frame[p].err = "nil"
            /\ frame[p].r = frame[p].r0

\* C4 (as claimed): the decoder's boundary readCnt - len(r) equals the number
\* of acknowledgment-bearing operations of the batch, and a NAK answered to
\* any of them makes Tx fail with the NAK error.
C4_EveryAckValidated ==
    \A p \in Procs :
        /\ Built(p) =>
              frame[p].readCnt - Len(frame[p].r0) = Len(AckedBytes(BatchOps(p)))
        /\ (TxDone(p) /\ \E i \in 1..Len(frame[p].wire) :
                            /\ ResponseKinds(BatchOps(p))[i] = "ack"
                            /\ frame[p].wire[i] % 2 = 1)
              => frame[p].err = "NAK"

\* C5: a transaction with w and r both non-empty has exactly two start
\* conditions, the first byte shifted out after the second start is the
\* address with bit 0 set, there are exactly len(r) read-byte operations,
\* and (1 + len(w)) + 1 + len(r) response bytes are requested.
C5_CombinedBatch ==
    \A p \in Procs :
        (Built(p) /\ Len(frame[p].w) >= 1 /\ Len(frame[p].r0) >= 1) =>
            LET ops == BatchOps(p)
                st == Starts(ops)
                second == CHOOSE i \in st : \A j \in st : j <= i
                ab == FirstOutAfter(ops, second)
            IN  /\ Cardinality(st) = 2
                /\ Len(ab) = 1
                /\ ab[1] % 2 = 1
                /\ ab[1] \div 2 = frame[p].addr % 128
                /\ Len(ReadOps(ops)) = Len(frame[p].r0)
                /\ \A i \in 1..Len(ReadOps(ops)) : ReadOps(ops)[i].a = 1
                /\ frame[p].readCnt = (1 + Len(frame[p].w)) + 1 + Len(frame[p].r0)

\* C5 witness: the batch of a transaction with the longest payload and the
\* longest read buffer has been written
C5_Witness ==
    \E p \in Procs :
        /\ pc[p] = "tx_read"
        /\ Len(frame[p].w) = MaxW /\ Len(frame[p].r0) = MaxR
        /\ frame[p].calls = <<"Flush", "Write">>
        /\ frame[p].readCnt = MaxW + 2 + MaxR

\* C6: a transaction with w non-empty and r empty has exactly 1 + len(w)
\* acknowledgment-bearing operations, carrying the write-direction address
\* byte and then the bytes of w in order, no read-byte operation, and
\* requests 1 + len(w) response bytes.
C6_WriteOnlyBatch ==
    \A p \in Procs :
        (Built(p) /\ Len(frame[p].w) >= 1 /\ Len(frame[p].r0) = 0) =>
            LET ops == BatchOps(p)
                ab == AckedBytes(ops)
            IN  /\ Len(ab) = 1 + Len(frame[p].w)
                /\ ab[1] % 2 = 0
                /\ ab[1] \div 2 = frame[p].addr % 128
                /\ Tail(ab) = frame[p].w
                /\ ReadOps(ops) = <<>>
                /\ frame[p].readCnt = 1 + Len(frame[p].w)

\* C6 witness: a write-only transaction with the longest payload completed
C6_Witness ==
    \E p \in Procs :
        /\ TxDone(p) /\ frame[p].err = "nil"
        /\ Len(frame[p].w) = MaxW /\ Len(frame[p].r0) = 0
        /\ Len(frame[p].readBuff) = 1 + MaxW

\* C7: the number of response bytes Tx asks ReadAll for is the number of
\* response-producing shifts in its batch, and the bytes read back are the
\* bytes the adapter emitted for those shifts, in that order.
C7_ResponseCountMatchesShifts ==
    \A p \in Procs :
        /\ Built(p) =>
              /\ frame[p].readCnt = Len(ShiftIns(BatchOps(p)))
              /\ frame[p].readCnt = ResponseLen(BatchOps(p))
        /\ TxDone(p) =>
              /\ Len(frame[p].readBuff) = frame[p].readCnt
              /\ frame[p].readBuff = frame[p].wire

\* C7 witness: a combined transaction read back acknowledgment and data bytes
C7_Witness ==
    \E p \in Procs :
        /\ TxDone(p)
        /\ Len(frame[p].w) >= 1 /\ Len(frame[p].r0) = MaxR
        /\ Len(frame[p].readBuff) = Len(frame[p].w) + 2 + MaxR

\* the positions at which a caller is inside the locked part of an operation
LockedPcs ==
    {"tx_flush", "tx_write", "tx_read", "tx_ret", "ss_clock", "ss_ret",
     "cl_stop", "cl_ret"}

\* C8 (as claimed): a caller executing SetSpeed, Tx, Close, SCL or SDA holds
\* the lock, so at most one of them executes at a time.
C8_AllOperationsHoldLock ==
    /\ \A p \in Procs : pc[p] \in LockedPcs \cup {"pin_body"} => mu = p
    /\ Cardinality({p \in Procs : pc[p] \in LockedPcs \cup {"pin_body"}}) <= 1

\* C8 (amended): a caller past the lock acquisition of SetSpeed, Tx or Close
\* holds the lock until it returns, so at most one caller is there at a time
\* and only the holder has made transport calls; SCL and SDA take no lock.
C8_LockedOperationsExclude ==
    /\ \A p \in Procs : pc[p] \in LockedPcs => mu = p
    /\ Cardinality({p \in Procs : pc[p] \in LockedPcs}) <= 1
    /\ \A p \in Procs : frame[p].calls # <<>> => mu = p
    /\ \A p \in Procs : pc[p] = "pin_body" => mu # p

\* C8 witness: Close waits for the lock while a transaction is between its
\* write and its read
C8_Witness ==
    \E p, q \in Procs :
        /\ pc[p] = "tx_read" /\ mu = p
        /\ pc[q] = "cl_lock"

\* C9: a caller that is not inside an operation does not hold the lock, and
\* when no caller is inside an operation the lock is free.
C9_LockReleasedOnReturn ==
    /\ \A p \in Procs : pc[p] = "idle" => mu # p
    /\ (\A p \in Procs : pc[p] = "idle") => mu = 0

\* C9 witness: every caller has returned, the last of them from a Tx that
\* failed with a transport error
C9_Witness ==
    /\ \A p \in Procs : pc[p] = "idle"
    /\ ret.op = "Tx" /\ ret.err \in TransportErrs
    /\ mu = 0

\* C10: when Flush, Write or ReadAll fails in Tx, that call is the last
\* transport call of the transaction, Tx is about to return the error the
\* call returned, and the caller's read buffer is as before the call.
C10_TransportErrorAborts ==
    \A p \in Procs :
        (pc[p] \in {"tx_lock", "tx_flush", "tx_write", "tx_read", "tx_ret"}
         /\ frame[p].failed # <<>>) =>
            /\ pc[p] = "tx_ret"
            /\ frame[p].calls[Len(frame[p].calls)] = frame[p].failed[1]
            /\ Cardinality({i \in 1..Len(frame[p].calls) :
                               frame[p].calls[i] = frame[p].failed[1]}) = 1
            /\ frame[p].err = frame[p].failed[2]
            /\ frame[p].r = frame[p].r0

\* C10 witness: ReadAll failed after the batch was written
C10_Witness ==
    \E p \in Procs :
        /\ pc[p] = "tx_ret"
        /\ frame[p].failed # <<>> /\ frame[p].failed[1] = "ReadAll"
        /\ frame[p].calls = <<"Flush", "Write", "ReadAll">>
        /\ Len(frame[p].r0) >= 1

(***************************************************************************)
(* C11.  SetSpeed(f) with f below 100 Hz or above 10 MHz returns the       *)
(* out-of-range error at once: it makes no transport call and never takes  *)
(* the lock.  With 100 Hz <= f <= 10 MHz, both limits included, it goes on *)
(* to call MPSSEClock exactly once, and it returns what that call          *)
(* returned, nil when the call succeeds.                                   *)
(***************************************************************************)
SetSpeedPcs == {"ss_lock", "ss_clock", "ss_ret"}

C11_SetSpeedRange ==
    \A p \in Procs :
        LET f == frame[p].freq
        IN  /\ pc[p] \in SetSpeedPcs => f # 0
            /\ f # 0 =>
                 IF f < 100 \/ f > 10000000
                 THEN /\ pc[p] = "idle"
                      /\ ret = [who |-> p, op |-> "SetSpeed", err |-> "OutOfRange"]
                      /\ frame[p].calls = <<>>
                      /\ mu # p
                 ELSE /\ pc[p] \in SetSpeedPcs
                      /\ ret.op # "SetSpeed"
                      /\ pc[p] # "ss_ret" => frame[p].calls = <<>>
                      /\ pc[p] = "ss_ret" =>
                           /\ frame[p].calls = <<"MPSSEClock">>
                           /\ frame[p].failed = <<>> =>
                                /\ frame[p].err = "nil"
                                /\ hwClock = (2 * f) \div 3
                           /\ frame[p].failed # <<>> =>
                                frame[p].err = frame[p].failed[2]

\* SetSpeed at the upper limit itself has called MPSSEClock and succeeded
C11_Witness ==
    \E p \in Procs :
        /\ pc[p] = "ss_ret"
        /\ frame[p].freq = 10000000
        /\ frame[p].calls = <<"MPSSEClock">>
        /\ frame[p].err = "nil"

(***************************************************************************)
(* C12.  A Close that directly follows another Close, with the transport   *)
(* working, returns nil; and every Close writes the clock and tri-state    *)
(* reset commands once and leaves usingI2C false.                          *)
(***************************************************************************)
ResetCommands == <<141, 138, 0, 0, 158, 0, 0>>

C12_CloseTwice ==
    \A p \in Procs :
        pc[p] = "cl_ret" =>
            /\ frame[p].calls = <<"Write">>
            /\ frame[p].sent = ResetCommands
            /\ ~usingI2C
            /\ (frame[p].prev = "Close" /\ frame[p].failed = <<>>) =>
                  frame[p].err = "nil"

\* the second of two Closes in a row has written the reset and is returning nil
C12_Witness ==
    \E p \in Procs :
        /\ pc[p] = "cl_ret"
        /\ frame[p].prev = "Close"
        /\ frame[p].sent = ResetCommands
        /\ frame[p].err = "nil"
        /\ ~usingI2C

(***************************************************************************)
(* C13.  A Tx whose address has bits set above the 7-bit address (0x401)   *)
(* returns an error without making any transport call, and the first       *)
(* address byte of every batch addresses the device the caller named.      *)
(***************************************************************************)
TxPcs == {"tx_flush", "tx_write", "tx_read", "tx_ret"}

C13_BadAddressRefused ==
    \A p \in Procs :
        /\ (pc[p] \in TxPcs /\ frame[p].addr > 127) =>
              /\ pc[p] = "tx_ret"
              /\ frame[p].err # "nil"
              /\ frame[p].calls = <<>>
        /\ Built(p) => AckedBytes(BatchOps(p))[1] \div 2 = frame[p].addr

(***************************************************************************)
(* C14.  Tx makes no transport call before its batch is assembled down to  *)
(* the final stop, and the calls it then makes are, in order, Flush, one   *)
(* Write of the whole batch with the flush command as its last byte, and   *)
(* one ReadAll that returns exactly readCnt bytes; a failing call is the   *)
(* last one made.                                                          *)
(***************************************************************************)
TransportOrder == <<"Flush", "Write", "ReadAll">>

C14_TransportOrder ==
    \A p \in Procs :
        pc[p] \in TxPcs =>
            LET c == frame[p].calls
                b == frame[p].cmdFull
            IN  /\ Len(c) <= 3
                /\ c = SubSeq(TransportOrder, 1, Len(c))
                /\ Len(b) >= 3
                /\ SubSeq(b, Len(b) - 2, Len(b)) = <<128, 3, direction>>
                /\ pc[p] = "tx_flush" => c = <<>>
                /\ pc[p] = "tx_write" => c = <<"Flush">>
                /\ pc[p] = "tx_read" => c = <<"Flush", "Write">>
                /\ Len(c) < 2 => frame[p].sent = <<>>
                /\ Len(c) >= 2 => frame[p].sent = b \o <<135>>
                /\ (pc[p] = "tx_ret" /\ frame[p].failed = <<>>) =>
                      /\ c = TransportOrder
                      /\ Len(frame[p].readBuff) = frame[p].readCnt
                /\ (pc[p] = "tx_ret" /\ frame[p].failed # <<>>) =>
                      /\ c # <<>>
                      /\ c[Len(c)] = frame[p].failed[1]
                      /\ frame[p].readBuff = <<>>

\* a combined transaction went through Flush, one Write and one ReadAll
C14_Witness ==
    \E p \in Procs :
        /\ TxDone(p)
        /\ frame[p].w # <<>> /\ frame[p].r0 # <<>>
        /\ frame[p].calls = TransportOrder
        /\ frame[p].sent = frame[p].cmdFull \o <<135>>
        /\ Len(frame[p].readBuff) = frame[p].readCnt

(***************************************************************************)
(* C15.  The batch of Tx(addr, w, r) is, in order: start; the write-       *)
(* direction address byte and each byte of w, every one followed by an     *)
(* acknowledgment read; exactly when w and r are both non-empty: stop,     *)
(* idle, start, the read-direction address byte with its acknowledgment    *)
(* read, and len(r) read-byte operations; then stop.  So the batch begins  *)
(* with a start condition, ends with a stop condition and holds as many    *)
(* stops as starts.                                                        *)
(***************************************************************************)
Tok(o) ==
    IF o.kind = "pins" THEN <<"pins", o.a>>
    ELSE IF o.kind \in {"out8", "out1"} THEN <<o.kind, o.a, o.d>>
    ELSE <<o.kind, o.a>>

Toks(ops) == [i \in 1..Len(ops) |-> Tok(ops[i])]

P4(v) == [i \in 1..4 |-> <<"pins", v>>]
StartToks == P4(1) \o P4(0)
StopToks == P4(0) \o P4(1) \o P4(3)
IdleToks == P4(3)
WriteAckTok(c) == <<<<"out8", 1, <<c>>>>>> \o P4(2) \o <<<<"in1", 1>>>>
ReadTok(last) ==
    <<<<"in8", 1>>, <<"out1", 1, <<IF last THEN 255 ELSE 0>>>>, <<"pins", 2>>>>

RECURSIVE WriteAckToks(_)
WriteAckToks(w) ==
    IF w = <<>> THEN <<>> ELSE WriteAckTok(Head(w)) \o WriteAckToks(Tail(w))

RECURSIVE ReadToks(_, _)
ReadToks(i, n) ==
    IF i > n THEN <<>> ELSE ReadTok(i = n) \o ReadToks(i + 1, n)

ExpectedBatch(addr, w, r) ==
    StartToks
    \o WriteAckTok(2 * (addr % 128))
    \o WriteAckToks(w)
    \o (IF w # <<>> /\ r # <<>>
        THEN StopToks \o IdleToks \o StartToks
             \o WriteAckTok(2 * (addr % 128) + 1)
             \o ReadToks(1, Len(r))
        ELSE <<>>)
    \o StopToks

C15_BatchOrder ==
    \A p \in Procs :
        Built(p) =>
            LET ops == BatchOps(p)
            IN  /\ Toks(ops) = ExpectedBatch(frame[p].addr, frame[p].w, frame[p].r0)
                /\ 1 \in Starts(ops)
                /\ (Len(ops) - 3) \in Stops(ops)
                /\ Cardinality(Starts(ops)) = Cardinality(Stops(ops))
                /\ Cardinality(Starts(ops)) =
                      IF frame[p].w # <<>> /\ frame[p].r0 # <<>> THEN 2 ELSE 1

\* a combined batch with two starts and two stops has been assembled
C15_Witness ==
    \E p \in Procs :
        /\ Built(p)
        /\ Len(frame[p].w) = 1 /\ Len(frame[p].r0) = 1
        /\ Cardinality(Starts(BatchOps(p))) = 2
        /\ Cardinality(Stops(BatchOps(p))) = 2

(***************************************************************************)
(* C16.  The read phase for n >= 1 bytes holds n read-byte operations,     *)
(* each an 8-bit shift-in directly followed by a one-bit shift-out of the  *)
(* master's acknowledgment; that bit is 0 (ACK) for each of the first      *)
(* n - 1 bytes and 1 (NAK) for the n-th only.                              *)
(***************************************************************************)
\* the bit a one-bit shift-out puts on the data line: the top bit of its byte
AckBit(o) == o.d[1] \div 128

C16_LastByteNaked ==
    \A p \in Procs :
        (Built(p) /\ frame[p].w # <<>> /\ frame[p].r0 # <<>>) =>
            LET ops == BatchOps(p)
                n == Len(frame[p].r0)
                ins == ReadOps(ops)
                outs == OfKind(ops, "out1")
            IN  /\ Len(ins) = n
                /\ Len(outs) = n
                /\ \A j \in 1..Len(ops) :
                      ops[j].kind = "out1" =>
                          /\ j > 1
                          /\ ops[j - 1].kind = "in8"
                          /\ ops[j - 1].a = 1
                          /\ ops[j].a = 1
                /\ \A i \in 1..n : AckBit(outs[i]) = IF i = n THEN 1 ELSE 0

\* a read phase of two bytes: the first acknowledged, the second not
C16_Witness ==
    \E p \in Procs :
        /\ Built(p)
        /\ frame[p].w # <<>>
        /\ Len(frame[p].r0) = 2
        /\ OfKind(BatchOps(p), "out1")[1].d = <<0>>
        /\ OfKind(BatchOps(p), "out1")[2].d = <<255>>

(***************************************************************************)
(* C17.  For every address a in 0..127 the address byte queued for the     *)
(* write direction is a byte whose upper seven bits are a and whose bit 0  *)
(* is 0, the one queued for the read direction has the same upper seven    *)
(* bits and bit 0 set.                                                     *)
(***************************************************************************)
C17_AddressByte ==
    \A p \in Procs :
        (Built(p) /\ frame[p].addr \in 0..127) =>
            LET ab == AckedBytes(BatchOps(p))
                wb == ab[1]
                rb == ab[Len(frame[p].w) + 2]
            IN  /\ wb \in 0..255
                /\ wb \div 2 = frame[p].addr
                /\ wb % 2 = 0
                /\ (frame[p].w # <<>> /\ frame[p].r0 # <<>>) =>
                      /\ rb \in 0..255
                      /\ rb \div 2 = frame[p].addr
                      /\ rb % 2 = 1
                      /\ rb \div 2 = wb \div 2

\* the highest 7-bit address in a combined batch: 0xFE to write, 0xFF to read
C17_Witness ==
    \E p \in Procs :
        /\ Built(p)
        /\ frame[p].addr = 127
        /\ frame[p].w # <<>> /\ frame[p].r0 # <<>>
        /\ AckedBytes(BatchOps(p))[1] = 254
        /\ AckedBytes(BatchOps(p))[Len(frame[p].w) + 2] = 255

(***************************************************************************)
(* C18.  Once set up, the lines rest with clock and data high.  Taking the *)
(* level the lines rest at and then the levels of the set-pins commands of *)
(* a batch in order, the data line changes between two consecutive levels  *)
(* with the clock low in both, or with the clock high in both and then     *)
(* either falling at the first command of a start condition or rising at   *)
(* the ninth command of a stop condition; and the last set-pins command of *)
(* the batch sets clock and data high.                                     *)
(***************************************************************************)
PinLevels(ops) ==
    LET P == OfKind(ops, "pins") IN [i \in 1..Len(P) |-> P[i].a % 4]

\* L[j .. j + 7] are the levels of a start condition
InStart(L, j) ==
    /\ j + 7 <= Len(L)
    /\ [k \in 1..8 |-> L[j + k - 1]] = <<1, 1, 1, 1, 0, 0, 0, 0>>

\* L[j - 8 .. j + 3] are the levels of a stop condition
InStop(L, j) ==
    /\ j - 8 >= 1
    /\ j + 3 <= Len(L)
    /\ [k \in 1..12 |-> L[j - 9 + k]] = <<0, 0, 0, 0, 1, 1, 1, 1, 3, 3, 3, 3>>

C18_DataChangesOnlyInStartStop ==
    /\ opened => lines % 4 = 3
    /\ \A p \in Procs :
          Built(p) =>
              LET L == <<lines % 4>> \o PinLevels(BatchOps(p))
              IN  /\ L[Len(L)] = 3
                  /\ \A i \in 1..(Len(L) - 1) :
                        SdaHigh(L[i]) # SdaHigh(L[i + 1]) =>
                            \/ ~SclHigh(L[i]) /\ ~SclHigh(L[i + 1])
                            \/ /\ SclHigh(L[i]) /\ SclHigh(L[i + 1])
                               /\ IF SdaHigh(L[i]) THEN InStart(L, i + 1)
                                  ELSE InStop(L, i + 1)

\* the adapter has run a combined batch and its lines are idle again
C18_Witness ==
    \E p \in Procs :
        /\ pc[p] = "tx_read"
        /\ frame[p].w # <<>> /\ frame[p].r0 # <<>>
        /\ lines % 4 = 3
        /\ Len(PinLevels(Parse(frame[p].sent))) > 12

(***************************************************************************)
(* C19.  The pins D3..D7 keep the levels the GPIO side drove on them:      *)
(* every set-pins command of a batch carries the bus's direction and, in   *)
(* bits 3..7, the bus's driven value, and so do the levels the adapter's   *)
(* pins are left at.                                                       *)
(***************************************************************************)
C19_UpperPinsUntouched ==
    /\ lines \div 8 = value \div 8
    /\ \A p \in Procs :
          Built(p) =>
              \A i \in 1..Len(BatchOps(p)) :
                  BatchOps(p)[i].kind = "pins" =>
                      /\ BatchOps(p)[i].d = <<direction>>
                      /\ BatchOps(p)[i].a \div 8 = value \div 8

(***************************************************************************)
(* C20.  usingI2C is true only after a setupI2C that returned nil, and it  *)
(* is false whenever stopI2C has run, whatever its write returned.         *)
(***************************************************************************)
C20_FlagTracksSetup ==
    /\ usingI2C => opened
    /\ \A p \in Procs : pc[p] = "cl_ret" => ~usingI2C

(***************************************************************************)
(* C21.  With every transport call returning and fair scheduling of the    *)
(* callers and of the lock, every Tx, SetSpeed and Close that was called   *)
(* returns, and the caller does not hold the lock once it has returned,    *)
(* however many callers contend.  A Tx is about to return only after a     *)
(* transport call failed, or after the batch was written and readCnt       *)
(* bytes were read back.                                                   *)
(***************************************************************************)
InCall(p) ==
    pc[p] \in {"tx_lock", "ss_lock", "cl_lock"} \cup LockedPcs

Returned(p) == pc[p] = "idle" /\ mu # p

TxReturnsAfterIO ==
    \A p \in Procs :
        pc[p] = "tx_ret" =>
            \/ frame[p].failed # <<>>
            \/ /\ frame[p].calls = <<"Flush", "Write", "ReadAll">>
               /\ frame[p].sent = frame[p].cmdFull \o <<135>>
               /\ Len(frame[p].readBuff) = frame[p].readCnt

C21_EveryCallReturns ==
    /\ []TxReturnsAfterIO
    /\ \A p \in Procs : InCall(p) ~> Returned(p)

\* one caller waits for the lock while another is in the middle of a Tx
C21_Witness ==
    \E p \in Procs, q \in Procs :
        /\ p # q
        /\ pc[p] \in {"tx_lock", "ss_lock", "cl_lock"}
        /\ pc[q] = "tx_read"
        /\ mu = q
====
